---- MODULE Spec2Model ----
(***************************************************************************)
(* A model of xpath_reader: the Reader over an XML document, its anchor,   *)
(* the owned-or-borrowed Context cell, XPath expression handles and the    *)
(* FromXml conversions of src/src/reader.rs.                               *)
(*                                                                         *)
(* Texts (string-values, expression sources) are sequences of one          *)
(* character strings, so that parsing a number is computed digit by digit. *)
(* Node identifiers are strings chosen so that no ordering of the          *)
(* identifiers coincides with document order.                              *)
(***************************************************************************)
EXTENDS Integers, Sequences, FiniteSets, TLC

VARIABLES readers, exprs, last

vars == <<readers, exprs, last>>

(***************************************************************************)
(* Bounds of the model.                                                    *)
(***************************************************************************)
\* readers kept alive at once
MaxReaders == 2
\* expressions compiled in advance and kept
MaxExprs == 2
\* nodes of a caller-built node-set
MaxSetLen == 2

(***************************************************************************)
(* The document (sxd_document::Package) parsed from the text               *)
(*   <book name="Hi"><empty/><n>4<i>2</i></n>                              *)
(*     <item>7</item><item>x</item><item>300</item><t>true</t><m>-1</m>    *)
(*   </book>                                                               *)
(***************************************************************************)
RootNode == "root"

Children(n) ==
    CASE n = "root" -> <<"book">>
      [] n = "book" -> <<"@name", "empty", "n", "item1", "item2", "item3", "t", "m">>
      [] n = "n" -> <<"n.text", "i">>
      [] n = "i" -> <<"i.text">>
      [] n = "item1" -> <<"item1.text">>
      [] n = "item2" -> <<"item2.text">>
      [] n = "item3" -> <<"item3.text">>
      [] n = "t" -> <<"t.text">>
      [] n = "m" -> <<"m.text">>
      [] OTHER -> <<>>

Kind(n) ==
    CASE n = "root" -> "Root"
      [] n = "@name" -> "Attribute"
      [] n \in {"n.text", "i.text", "item1.text", "item2.text", "item3.text",
                "t.text", "m.text"} -> "Text"
      [] OTHER -> "Element"

Name(n) ==
    CASE n \in {"item1", "item2", "item3"} -> "item"
      [] n = "@name" -> "name"
      [] n \in {"book", "empty", "n", "i", "t", "m"} -> n
      [] OTHER -> ""

\* the character data of a text node, the value of an attribute
Value(n) ==
    CASE n = "@name" -> <<"H", "i">>
      [] n = "n.text" -> <<"4">>
      [] n = "i.text" -> <<"2">>
      [] n = "item1.text" -> <<"7">>
      [] n = "item2.text" -> <<"x">>
      [] n = "item3.text" -> <<"3", "0", "0">>
      [] n = "t.text" -> <<"t", "r", "u", "e">>
      [] n = "m.text" -> <<"-", "1">>
      [] OTHER -> <<>>

RECURSIVE Preorder(_)
RECURSIVE PreorderAll(_)
\* the nodes of the subtree of n, in document order
Preorder(n) == <<n>> \o PreorderAll(Children(n))
PreorderAll(ns) ==
    IF ns = <<>> THEN <<>> ELSE Preorder(Head(ns)) \o PreorderAll(Tail(ns))

DocNodes == Preorder(RootNode)

Nodes == {DocNodes[i] : i \in 1..Len(DocNodes)}

\* the position of n in document order
DocPos(n) == CHOOSE i \in 1..Len(DocNodes) : DocNodes[i] = n

RECURSIVE ConcatValues(_)
ConcatValues(ns) ==
    IF ns = <<>> THEN <<>>
    ELSE (IF Kind(Head(ns)) = "Text" THEN Value(Head(ns)) ELSE <<>>)
         \o ConcatValues(Tail(ns))

\* Node::string_value: the text of the descendants of an element or of the
\* root, concatenated in document order; the value of an attribute or text
string_value(n) ==
    IF Kind(n) \in {"Attribute", "Text"} THEN Value(n)
    ELSE ConcatValues(Preorder(n))

(***************************************************************************)
(* Option, Result and the crate's Error.                                   *)
(***************************************************************************)
None == [some |-> FALSE]
Some(v) == [some |-> TRUE, v |-> v]

Ok(v) == [ok |-> TRUE, val |-> v]
Err(e) == [ok |-> FALSE, err |-> e]

\* Error::internal(message, kind): an error of one of the crate's own kinds
Error_internal(msg, kind) == [kind |-> kind, msg |-> msg]
\* Error::custom_msg(message): the escape hatch for a message
Error_custom_msg(msg) == [kind |-> "Custom", msg |-> msg]
\* Error::custom_err(error): the escape hatch wrapping a foreign error
Error_custom_err(e) == [kind |-> "Custom", msg |-> e]

(***************************************************************************)
(* util::Refable: a value held owned, or a reference to it.                *)
(***************************************************************************)
Owned(v) == [mode |-> "Owned", v |-> v]
Borrowed(v) == [mode |-> "Borrowed", v |-> v]

borrow(self) == self.v

\* a deep copy taking ownership, where a re-borrow is meant
clone_ref_copying(self) == Owned(self.v)

clone_ref(self) == Borrowed(borrow(self))

(***************************************************************************)
(* sxd_xpath::Context.  A Context is an instance (id) with its variable    *)
(* bindings; the caller's Context binds $v, a default Context binds        *)
(* nothing.                                                                *)
(***************************************************************************)
CallerContext == [id |-> <<"caller", 0>>, vars |-> {"v"}]

\* Context::default() evaluated while building the Reader at `here`: a new
\* instance, living inside that Reader
Context_default(here) == [id |-> here, vars |-> {}]

(***************************************************************************)
(* sxd_xpath::nodeset::Nodeset: distinct nodes in insertion order.         *)
(***************************************************************************)
Range(s) == {s[i] : i \in 1..Len(s)}

Nodeset_new == <<>>

Nodeset_add(ns, n) == IF n \in Range(ns) THEN ns ELSE Append(ns, n)

\* Nodeset::document_order: the nodes sorted by document order
document_order(ns) ==
    LET S == Range(ns) IN SelectSeq(DocNodes, LAMBDA n : n \in S)

\* Nodeset::document_order_first
document_order_first(ns) ==
    IF ns = <<>> THEN None
    ELSE Some(CHOOSE n \in Range(ns) :
                  \A m \in Range(ns) : DocPos(n) <= DocPos(m))

(***************************************************************************)
(* The query engine (sxd_xpath): Factory::build compiles a source text to  *)
(* an XPath, XPath::evaluate runs it on a context node.                    *)
(***************************************************************************)
XP(op, name) == [op |-> op, name |-> name]

\* Factory::new().build(text): Err on a malformed text, Ok(None) on an empty
\* one, Ok(Some(xpath)) otherwise
Factory_build(text) ==
    CASE text = "" -> Ok(None)
      [] text = "//[" -> Err(<<"expected a node test">>)
      [] text = "." -> Ok(Some(XP("self", "")))
      [] text = "item" -> Ok(Some(XP("child", "item")))
      [] text = "//item" -> Ok(Some(XP("descendant", "item")))
      [] text = "//empty" -> Ok(Some(XP("descendant", "empty")))
      [] text = "//n" -> Ok(Some(XP("descendant", "n")))
      [] text = "//t" -> Ok(Some(XP("descendant", "t")))
      [] text = "//m" -> Ok(Some(XP("descendant", "m")))
      [] text = "//missing" -> Ok(Some(XP("descendant", "missing")))
      [] text = "//@name" -> Ok(Some(XP("attribute", "name")))
      [] text = "count(//item)" -> Ok(Some(XP("count", "item")))
      [] text = "string(//n)" -> Ok(Some(XP("string", "n")))
      [] text = "true()" -> Ok(Some(XP("true", "")))
      [] text = "$v" -> Ok(Some(XP("variable", "v")))
      [] OTHER -> Err(<<"unexpected token">>)

\* format!("{:?}", xpath): the debug form of a compiled query
DebugFmt(xpath) == "XPath(" \o xpath.op \o ":" \o xpath.name \o ")"

\* the orders in which the engine may insert the selected nodes into the
\* node-set it returns
InsertionOrders == {"forward", "reverse"}

Reverse(s) == [i \in 1..Len(s) |-> s[Len(s) + 1 - i]]

Inserted(S, io) ==
    LET fwd == SelectSeq(DocNodes, LAMBDA n : n \in S)
    IN IF io = "forward" THEN fwd ELSE Reverse(fwd)

Selected(xpath, node) ==
    CASE xpath.op = "self" -> {node}
      [] xpath.op = "child" ->
           {n \in Range(Children(node)) :
                Kind(n) = "Element" /\ Name(n) = xpath.name}
      [] xpath.op = "attribute" ->
           {n \in Nodes : Kind(n) = "Attribute" /\ Name(n) = xpath.name}
      [] OTHER ->
           {n \in Nodes : Kind(n) = "Element" /\ Name(n) = xpath.name}

\* XPath::evaluate(context, node): a node-set, a string, a number or a
\* boolean, or the engine's error (here: an unbound variable)
XPath_evaluate(xpath, context, node, io) ==
    CASE xpath.op \in {"self", "child", "attribute", "descendant"} ->
           Ok([tag |-> "Nodeset", nodeset |-> Inserted(Selected(xpath, node), io)])
      [] xpath.op = "count" ->
           Ok([tag |-> "Number", n |-> Cardinality(Selected(xpath, node))])
      [] xpath.op = "string" ->
           Ok([tag |-> "String",
               s |-> LET f == document_order_first(Inserted(Selected(xpath, node), io))
                     IN IF f.some THEN string_value(f.v) ELSE <<>>])
      [] xpath.op = "true" -> Ok([tag |-> "Boolean", b |-> TRUE])
      [] OTHER ->
           IF xpath.name \in context.vars
           THEN Ok([tag |-> "String", s |-> <<"v">>])
           ELSE Err(<<"Unknown variable ", xpath.name>>)

(***************************************************************************)
(* expression.rs: an XPath expression, compiled in advance or not.         *)
(***************************************************************************)
Parsed(cell) == [repr |-> "Parsed", cell |-> cell]
Unparsed(s) == [repr |-> "Unparsed", s |-> s]

\* .map_err(..)?.ok_or_else(..) on the result of Factory::build
built_to_xpath(built) ==
    IF ~built.ok THEN Err(Error_internal(built.err, "ParseXPath"))
    ELSE IF ~built.val.some
         THEN Err(Error_internal(<<"Empty XPath expression.">>, "ParseXPath"))
    ELSE Ok(built.val.v)

parse_xpath(xpath_expr) == built_to_xpath(Factory_build(xpath_expr))

\* .map(|x| XPathExpression(Repr::Parsed(Refable::Owned(x))))
map_parsed_owned(x) == IF x.ok THEN Ok(Parsed(Owned(x.val))) ELSE x

\* a compile in advance that takes the empty program for the context node
parse_lenient(xpath_expr) ==
    IF Factory_build(xpath_expr) = Ok(None)
    THEN Ok(Parsed(Owned(XP("self", ""))))
    ELSE map_parsed_owned(parse_xpath(xpath_expr))

\* expression::parse
parse(xpath_expr) == map_parsed_owned(parse_xpath(xpath_expr))

\* .map(|x| Refable::Owned(x))
map_owned(x) == IF x.ok THEN Ok(Owned(x.val)) ELSE x

\* XPathExpression::parsed: Ok(Refable<XPath>), borrowed from a compiled
\* expression, owned when compiled now
parsed(self) ==
    IF self.repr = "Parsed" THEN Ok(clone_ref(self.cell))
    ELSE map_owned(parse_xpath(self.s))

\* XPathExpression::to_string
to_string(self) ==
    IF self.repr = "Parsed" THEN DebugFmt(borrow(self.cell)) ELSE self.s

(***************************************************************************)
(* str::parse::<N> of the standard library, for the types of               *)
(* from_parse_str! modelled here: u8, i8 and bool.                         *)
(***************************************************************************)
U8_MAX == 255
I8_MAX == 127
I8_MIN == -128

NumTypes == {"u8", "i8", "bool"}

IsSigned(N) == N = "i8"
MaxOf(N) == IF N = "u8" THEN U8_MAX ELSE I8_MAX
MinOf(N) == IF N = "u8" THEN 0 ELSE I8_MIN

Digits == <<"0", "1", "2", "3", "4", "5", "6", "7", "8", "9">>
RADIX == Len(Digits)
IsDigit(c) == \E d \in 1..RADIX : Digits[d] = c
DigitVal(c) == (CHOOSE d \in 1..RADIX : Digits[d] = c) - 1

ParseIntError(kind) == <<"ParseIntError", kind>>
ParseBoolError == <<"ParseBoolError">>

RECURSIVE Accumulate(_, _, _, _)
\* the digit loop of from_str_radix: checked multiply, then checked add or
\* subtract, digit by digit from the left
Accumulate(N, digits, positive, acc) ==
    IF digits = <<>> THEN Ok(acc)
    ELSE IF ~IsDigit(Head(digits)) THEN Err(ParseIntError("InvalidDigit"))
    ELSE LET mul == acc * RADIX
             nxt == IF positive THEN mul + DigitVal(Head(digits))
                    ELSE mul - DigitVal(Head(digits))
         IN IF mul > MaxOf(N) \/ nxt > MaxOf(N) THEN Err(ParseIntError("PosOverflow"))
            ELSE IF mul < MinOf(N) \/ nxt < MinOf(N)
                 THEN Err(ParseIntError("NegOverflow"))
            ELSE Accumulate(N, Tail(digits), positive, nxt)

str_parse_int(N, src) ==
    IF src = <<>> THEN Err(ParseIntError("Empty"))
    ELSE LET positive == ~(Head(src) = "-" /\ IsSigned(N))
             digits == IF Head(src) = "+" \/ ~positive THEN Tail(src) ELSE src
         IN IF digits = <<>> THEN Err(ParseIntError("Empty"))
            ELSE Accumulate(N, digits, positive, 0)

str_parse_bool(src) ==
    IF src = <<"t", "r", "u", "e">> THEN Ok(TRUE)
    ELSE IF src = <<"f", "a", "l", "s", "e">> THEN Ok(FALSE)
    ELSE Err(ParseBoolError)

\* s.parse::<N>()
str_parse(N, src) == IF N = "bool" THEN str_parse_bool(src) ELSE str_parse_int(N, src)

(***************************************************************************)
(* reader.rs: the Reader, a Context cell and an anchor.  The constructors   *)
(* take the place `here` where the new Reader is built, which names the    *)
(* Context instance a Reader without a supplied Context creates.           *)
(***************************************************************************)
AnchorRoot == [tag |-> "Root"]
AnchorNodeset(nodeset) == [tag |-> "Nodeset", nodeset |-> nodeset]

Reader(context, anchor) == [context |-> context, anchor |-> anchor]

\* the text of the document above, and a text that is not well-formed
DocText == "<book name='Hi'>...</book>"
XmlTexts == {DocText, "<book"}

sxd_parse(xml) ==
    IF xml = DocText THEN Ok("package") ELSE Err(<<"unclosed element">>)

\* Reader::from_str
from_str(xml, context, here) ==
    LET package == sxd_parse(xml)
    IN IF ~package.ok THEN Err(Error_internal(package.err, "ParseXml"))
       ELSE Ok(Reader(IF context.some THEN Borrowed(context.v)
                      ELSE Owned(Context_default(here)),
                      AnchorRoot))

\* Reader::from_nodeset
from_nodeset(nodeset, context, here) ==
    Reader(IF context.some THEN Borrowed(context.v)
           ELSE Owned(Context_default(here)),
           AnchorNodeset(nodeset))

\* Reader::from_node
from_node(node, context, here) ==
    from_nodeset(Nodeset_add(Nodeset_new, node), context, here)

\* Reader::context
context(self) == borrow(self.context)

\* Reader::anchor_nodeset
anchor_nodeset(self) ==
    IF self.anchor.tag = "Nodeset" THEN self.anchor.nodeset
    ELSE Nodeset_add(Nodeset_new, RootNode)

\* the node inserted first taken for the first in document order
anchor_node_first_inserted(self) ==
    IF self.anchor.tag = "Nodeset"
    THEN IF self.anchor.nodeset = <<>> THEN None ELSE Some(self.anchor.nodeset[1])
    ELSE Some(RootNode)

\* Reader::anchor_node
anchor_node(self) ==
    IF self.anchor.tag = "Nodeset" THEN document_order_first(self.anchor.nodeset)
    ELSE Some(RootNode)

\* .map_err(|e| Error::internal(format!("{}", e), ErrorKind::EvalXPath))
map_err_eval(v) == IF v.ok THEN v ELSE Err(Error_internal(v.err, "EvalXPath"))

\* a missing anchor node evaluated as no match
evaluate_at_lenient(self, xpath, anchor, io) ==
    IF ~anchor.some THEN Ok([tag |-> "Nodeset", nodeset |-> Nodeset_new])
    ELSE map_err_eval(XPath_evaluate(borrow(xpath), borrow(self.context),
                                     anchor.v, io))

\* Reader::evaluate from the anchor check on: xpath is the compiled query,
\* anchor the result of anchor_node()
evaluate_at(self, xpath, anchor, io) ==
    IF ~anchor.some
    THEN Err(Error_internal(<<"Anchor node not found when evaluating: ",
                              DebugFmt(borrow(xpath))>>, "EvalXPath"))
    ELSE map_err_eval(XPath_evaluate(borrow(xpath), borrow(self.context),
                                     anchor.v, io))

\* Reader::evaluate after xpath_expr.parsed(): `?` returns its error
evaluate_parsed(self, xpath, io) ==
    IF ~xpath.ok THEN xpath
    ELSE evaluate_at(self, xpath.val, anchor_node(self), io)

\* the anchor inspected first, the expression compiled after it
evaluate_anchor_first(self, xpath_expr, io) ==
    IF ~anchor_node(self).some
    THEN Err(Error_internal(<<"Anchor node not found when evaluating: ",
                              to_string(xpath_expr)>>, "EvalXPath"))
    ELSE evaluate_parsed(self, parsed(xpath_expr), io)

\* Reader::evaluate; io is the order in which the engine fills its node-set
evaluate(self, xpath_expr, io) == evaluate_parsed(self, parsed(xpath_expr), io)

\* a value that is no node-set taken as the empty node-set
match_value_lenient(self, xpath_expr, v) ==
    IF ~v.ok THEN v
    ELSE Ok(Reader(clone_ref(self.context),
                   AnchorNodeset(IF v.val.tag = "Nodeset" THEN v.val.nodeset
                                 ELSE Nodeset_new)))

\* Reader::with_nodeset_eval after self.evaluate(&xpath): `?` returns its
\* error, the match builds the derived Reader or the error
match_value(self, xpath_expr, v) ==
    IF ~v.ok THEN v
    ELSE IF v.val.tag = "Nodeset"
         THEN Ok(Reader(clone_ref(self.context), AnchorNodeset(v.val.nodeset)))
    ELSE Err(Error_internal(
             <<"XPath expression did not evaluate to nodeset: '",
               to_string(xpath_expr), "'">>, "EvalXPath"))

\* Reader::with_nodeset_eval
with_nodeset_eval(self, xpath_expr, io) ==
    match_value(self, xpath_expr, evaluate(self, xpath_expr, io))

(***************************************************************************)
(* reader.rs: the FromXml implementations.  A target type is a sequence:   *)
(* <<"String">>, <<"u8">>, <<"Option", "u8">>, <<"Vec", "Option", "u8">>.  *)
(***************************************************************************)
ScalarTypes == {<<"String">>} \cup {<<N>> : N \in NumTypes}
ElementTypes == ScalarTypes \cup {<<"Option">> \o T : T \in ScalarTypes}
Types == ElementTypes \cup {<<"Vec">> \o T : T \in ElementTypes}

\* a missing anchor node read as the empty string
ok_or_missing_as_empty(n) ==
    IF ~n.some THEN Ok(<<>>) ELSE Ok(string_value(n.v))

\* .ok_or(Error::custom_msg("Missing (anchor) node.")).map(|n| n.string_value())
ok_or_missing(n) ==
    IF ~n.some THEN Err(Error_custom_msg(<<"Missing (anchor) node.">>))
    ELSE Ok(string_value(n.v))

\* impl FromXml for String
String_from_xml(reader) == ok_or_missing(anchor_node(reader))

\* the closure without the is_empty() test
non_empty_unchecked(s) == Some(s)

\* the closure of Option<String>::from_xml
non_empty(s) == IF s = <<>> THEN None ELSE Some(s)

\* .and_then(|node| ..) on the anchor node
and_then_non_empty(n) == IF ~n.some THEN None ELSE non_empty(string_value(n.v))

\* impl FromXml for Option<String>
OptionString_from_xml(reader) == Ok(and_then_non_empty(anchor_node(reader)))

\* .map_err(|e| Error::custom_err(e))
map_err_custom(v) == IF v.ok THEN v ELSE Err(Error_custom_err(v.err))

\* from_parse_str!: $type::from_xml after String::from_xml(reader): `?`
\* returns its error, the text is parsed
parse_string(N, s) == IF ~s.ok THEN s ELSE map_err_custom(str_parse(N, s.val))

\* from_parse_str!: impl FromXml for $type
Num_from_xml(N, reader) == parse_string(N, String_from_xml(reader))

\* Ok(Some(..?))
ok_some(v) == IF v.ok THEN Ok(Some(v.val)) ELSE v

\* a parse failure turned into None (.ok() in place of `?`)
parse_option_string_lenient(N, s) ==
    IF ~s.ok THEN s
    ELSE IF s.val.some /\ str_parse(N, s.val.v).ok
         THEN Ok(Some(str_parse(N, s.val.v).val))
    ELSE Ok(None)

\* from_parse_str!: Option<$type>::from_xml after
\* Option::<String>::from_xml(reader)
parse_option_string(N, s) ==
    IF ~s.ok THEN s
    ELSE IF s.val.some THEN ok_some(map_err_custom(str_parse(N, s.val.v)))
    ELSE Ok(None)

\* from_parse_str!: impl FromXml for Option<$type>
OptionNum_from_xml(N, reader) ==
    parse_option_string(N, OptionString_from_xml(reader))

Converted(res) == [res |-> res, trace |-> <<>>]

RECURSIVE from_xml(_, _)
RECURSIVE Collect(_, _, _, _, _)

\* a failed element skipped, the iteration going on
CollectStep_skipping(T, reader, nodes, acc, trace, r, x) ==
    Collect(T, reader, Tail(nodes),
            IF x.res.ok THEN Append(acc, x.res.val) ELSE acc,
            trace \o <<[ty |-> T, reader |-> r]>> \o x.trace)

\* one step of collect(): x is the conversion of the element Reader r; an Err
\* ends the iteration, an Ok value is pushed and the iteration goes on.
\* trace lists the Readers T::from_xml was called on, in call order.
CollectStep(T, reader, nodes, acc, trace, r, x) ==
    IF ~x.res.ok
    THEN [res |-> x.res, trace |-> trace \o <<[ty |-> T, reader |-> r]>> \o x.trace]
    ELSE Collect(T, reader, Tail(nodes), Append(acc, x.res.val),
                 trace \o <<[ty |-> T, reader |-> r]>> \o x.trace)

\* the closure of Vec<T>::from_xml applied to the Reader built for a node
MapElement(T, reader, nodes, acc, trace, r) ==
    CollectStep(T, reader, nodes, acc, trace, r, from_xml(T, r))

\* the iterator chain of Vec<T>::from_xml: the nodes are mapped lazily and
\* collect() into a Result stops at the first Err
Collect(T, reader, nodes, acc, trace) ==
    IF nodes = <<>> THEN [res |-> Ok(acc), trace |-> trace]
    ELSE MapElement(T, reader, nodes, acc, trace,
                    from_node(Head(nodes), Some(context(reader)),
                              <<"element", DocPos(Head(nodes))>>))

\* the node-set iterated as it is, without document_order()
Vec_from_xml_unordered(T, reader) ==
    Collect(T, reader, anchor_nodeset(reader), <<>>, <<>>)

\* impl FromXml for Vec<T>
Vec_from_xml(T, reader) ==
    Collect(T, reader, document_order(anchor_nodeset(reader)), <<>>, <<>>)

\* V::from_xml(reader), by the implementation of V
from_xml(V, reader) ==
    CASE V = <<"String">> -> Converted(String_from_xml(reader))
      [] V = <<"Option", "String">> -> Converted(OptionString_from_xml(reader))
      [] Len(V) = 1 -> Converted(Num_from_xml(V[1], reader))
      [] V[1] = "Option" -> Converted(OptionNum_from_xml(V[2], reader))
      [] OTHER -> Vec_from_xml(Tail(V), reader)

\* the call V::from_xml(&reader) of Reader::read, recorded in the trace
Traced(V, reader, x) ==
    [res |-> x.res, trace |-> <<[ty |-> V, reader |-> reader]>> \o x.trace]

\* Reader::read after self.with_nodeset_eval(xpath_expr): `?` returns its
\* error, V::from_xml is called on the derived Reader
read_derived(reader, V) ==
    IF ~reader.ok THEN [res |-> reader, trace |-> <<>>]
    ELSE Traced(V, reader.val, from_xml(V, reader.val))

\* Reader::read; trace lists the Readers a from_xml was called on
read(self, xpath_expr, V, io) ==
    read_derived(with_nodeset_eval(self, xpath_expr, io), V)

(***************************************************************************)
(* reader.rs: FromXmlOptional.  An implementer T writes from_xml_optional  *)
(* and is given FromXml for T and for Option<T>.  The implementers here    *)
(* are types a caller may write from the conversions above: Title takes    *)
(* the text when there is one, Count a number when there is a text, Flag   *)
(* demands a boolean, Entry wraps a Title it demands.                      *)
(***************************************************************************)
Implementers == {"Title", "Count", "Flag", "Entry"}

\* the missing value taken as the empty value
ok_or_else_default(opt) == IF opt.some THEN Ok(opt.v) ELSE Ok(<<>>)

\* opt.ok_or_else(|| Error::custom_msg(format!("Missing value for type {:?}",
\* stringify!(T)))): stringify! of the type parameter is the token T
ok_or_else_missing_value(opt) ==
    IF opt.some THEN Ok(opt.v)
    ELSE Err(Error_custom_msg(<<"Missing value for type ", "\"T\"">>))

\* T::from_xml_optional(reader).and_then(|opt| ..)
and_then_ok_or_else(r) == IF ~r.ok THEN r ELSE ok_or_else_missing_value(r.val)

\* T::from_xml_optional(reader), by the implementation of T
from_xml_optional(T, reader) ==
    CASE T = "Title" -> OptionString_from_xml(reader)
      [] T = "Count" -> OptionNum_from_xml("u8", reader)
      [] T = "Flag" -> ok_some(Num_from_xml("bool", reader))
      [] T = "Entry" -> ok_some(and_then_ok_or_else(OptionString_from_xml(reader)))

\* impl<T> FromXml for T where T: FromXmlOptional
Implementer_from_xml(T, reader) ==
    and_then_ok_or_else(from_xml_optional(T, reader))

\* impl<T> FromXml for Option<T> where T: FromXmlOptional
OptionImplementer_from_xml(T, reader) == from_xml_optional(T, reader)

(***************************************************************************)
(* The caller.  readers are the Readers the caller holds, each with the    *)
(* Reader it was derived from (parent, 0 for none) and whether a Context   *)
(* was supplied to its constructor; exprs are the expressions compiled in  *)
(* advance that the caller holds, each with its source text; last is the   *)
(* call that has just returned, with its arguments and its result, until   *)
(* the caller keeps or drops the result and goes on.                       *)
(***************************************************************************)
Idle == [op |-> "idle"]

Held(r, parent, supplied) == [r |-> r, parent |-> parent, supplied |-> supplied]

\* the place where the next Reader the caller keeps is built
Here == <<"reader", Len(readers) + 1>>

RECURSIVE DistinctSeqs(_, _)
\* the sequences of at most k distinct elements of S
DistinctSeqs(S, k) ==
    IF k = 0 THEN {<<>>}
    ELSE LET shorter == DistinctSeqs(S, k - 1)
         IN shorter \cup
            UNION {{Append(q, n) : n \in S \ Range(q)} : q \in shorter}

Texts == {"", "//[", ".", "item", "//item", "//empty", "//n", "//t", "//m",
          "//missing", "//@name", "count(//item)", "string(//n)", "true()", "$v"}

\* the Context a caller may supply: none, its own, or that of a Reader it holds
ContextOptions ==
    {None, Some(CallerContext)} \cup
    {Some(context(readers[i].r)) : i \in 1..Len(readers)}

\* impl From<&'a XPathExpression<'a>> for XPathExpression<'a>
from_expression_ref(x) ==
    IF x.repr = "Parsed" THEN Parsed(clone_ref(x.cell)) ELSE Unparsed(x.s)

\* impl From<&'a str> for XPathExpression<'a>
from_text(s) == Unparsed(s)

\* the expressions a caller may pass: a text, or a reference to a compiled one
\* it holds; text is the source the expression was made from
Expressions ==
    {[x |-> from_text(t), text |-> t] : t \in Texts} \cup
    {[x |-> from_expression_ref(exprs[k].x), text |-> exprs[k].text] :
         k \in 1..Len(exprs)}

\* the nodes a caller builds node-sets from, in the derivation specification
PoolNodes == {"item3", "item1"}
PoolNodesets == {<<>>, <<"item3", "item1">>}

\* the target types read in the derivation and expression specifications
ReadTypes == {<<"String">>, <<"Option", "u8">>, <<"Vec", "u8">>}

FromStr ==
    /\ last = Idle
    /\ \E xml \in XmlTexts, c \in ContextOptions :
         last' = [op |-> "from_str", parent |-> 0, supplied |-> c.some,
                  res |-> from_str(xml, c, Here)]
    /\ UNCHANGED <<readers, exprs>>

FromNodeset ==
    /\ last = Idle
    /\ \E nodeset \in PoolNodesets, c \in ContextOptions :
         last' = [op |-> "from_nodeset", parent |-> 0, supplied |-> c.some,
                  res |-> Ok(from_nodeset(nodeset, c, Here))]
    /\ UNCHANGED <<readers, exprs>>

FromNode ==
    /\ last = Idle
    /\ \E node \in PoolNodes \cup {"n"}, c \in ContextOptions :
         last' = [op |-> "from_node", parent |-> 0, supplied |-> c.some,
                  res |-> Ok(from_node(node, c, Here))]
    /\ UNCHANGED <<readers, exprs>>

Parse ==
    /\ last = Idle
    /\ \E t \in Texts :
         last' = [op |-> "parse", text |-> t, res |-> parse(t)]
    /\ UNCHANGED <<readers, exprs>>

WithNodesetEval ==
    /\ last = Idle
    /\ \E i \in 1..Len(readers), e \in Expressions, io \in InsertionOrders :
         last' = [op |-> "with_nodeset_eval", parent |-> i, supplied |-> FALSE,
                  x |-> e.x, text |-> e.text, io |-> io,
                  res |-> with_nodeset_eval(readers[i].r, e.x, io)]
    /\ UNCHANGED <<readers, exprs>>

Read(Ts) ==
    /\ last = Idle
    /\ \E i \in 1..Len(readers), e \in Expressions, V \in Ts,
          io \in InsertionOrders :
         last' = [op |-> "read", parent |-> i, x |-> e.x, text |-> e.text,
                  V |-> V, io |-> io, out |-> read(readers[i].r, e.x, V, io)]
    /\ UNCHANGED <<readers, exprs>>

\* V::from_xml called on a Reader the caller holds
FromXml ==
    /\ last = Idle
    /\ \E i \in 1..Len(readers), V \in Types :
         last' = [op |-> "from_xml", parent |-> i, V |-> V,
                  out |-> from_xml(V, readers[i].r)]
    /\ UNCHANGED <<readers, exprs>>

\* anchor_node() called on a Reader the caller holds
AnchorNode ==
    /\ last = Idle
    /\ \E i \in 1..Len(readers) :
         last' = [op |-> "anchor_node", parent |-> i,
                  res |-> anchor_node(readers[i].r)]
    /\ UNCHANGED <<readers, exprs>>

\* anchor_nodeset() called on a Reader the caller holds
AnchorNodesetOf ==
    /\ last = Idle
    /\ \E i \in 1..Len(readers) :
         last' = [op |-> "anchor_nodeset", parent |-> i,
                  res |-> anchor_nodeset(readers[i].r)]
    /\ UNCHANGED <<readers, exprs>>

\* T::from_xml called on a Reader the caller holds, for an implementer T of
\* FromXmlOptional; opt is what T::from_xml_optional returned to it
ImplementerFromXml ==
    /\ last = Idle
    /\ \E i \in 1..Len(readers), T \in Implementers :
         last' = [op |-> "implementer_from_xml", parent |-> i, T |-> T,
                  opt |-> from_xml_optional(T, readers[i].r),
                  res |-> Implementer_from_xml(T, readers[i].r)]
    /\ UNCHANGED <<readers, exprs>>

\* Option::<T>::from_xml called on a Reader the caller holds
OptionImplementerFromXml ==
    /\ last = Idle
    /\ \E i \in 1..Len(readers), T \in Implementers :
         last' = [op |-> "option_implementer_from_xml", parent |-> i, T |-> T,
                  opt |-> from_xml_optional(T, readers[i].r),
                  res |-> OptionImplementer_from_xml(T, readers[i].r)]
    /\ UNCHANGED <<readers, exprs>>

\* the caller keeps the Reader it was returned
KeepReader ==
    /\ last.op \in {"from_str", "from_nodeset", "from_node", "with_nodeset_eval"}
    /\ last.res.ok
    /\ Len(readers) < MaxReaders
    /\ readers' = Append(readers, Held(last.res.val, last.parent, last.supplied))
    /\ last' = Idle
    /\ UNCHANGED exprs

\* the caller keeps the expression it was returned
KeepExpression ==
    /\ last.op = "parse"
    /\ last.res.ok
    /\ Len(exprs) < MaxExprs
    /\ exprs' = Append(exprs, [x |-> last.res.val, text |-> last.text])
    /\ last' = Idle
    /\ UNCHANGED readers

\* the caller drops the value it was returned and goes on
Resume ==
    /\ last # Idle
    /\ last' = Idle
    /\ UNCHANGED <<readers, exprs>>

(***************************************************************************)
(* Spec: the caller builds Readers, derives Readers from them and reads.   *)
(***************************************************************************)
Init ==
    /\ readers = <<>>
    /\ exprs = <<>>
    /\ last = Idle

Next ==
    \/ FromStr
    \/ FromNodeset
    \/ FromNode
    \/ WithNodesetEval
    \/ Read(ReadTypes)
    \/ KeepReader
    \/ Resume

Spec == Init /\ [][Next]_vars

(***************************************************************************)
(* ConvSpec: the conversions and the anchor queries, on one Reader of the   *)
(* Readers                                                                 *)
(* over the document root and over the node-sets of at most MaxSetLen of   *)
(* the nodes below, with its own or with the caller's Context.             *)
(***************************************************************************)
SeedNodes == {"empty", "n", "item1", "item2", "item3", "t", "m", "@name"}

SeedReaders ==
    {from_str(DocText, c, <<"reader", 1>>).val : c \in {None, Some(CallerContext)}}
    \cup {from_nodeset(nodeset, c, <<"reader", 1>>) :
              nodeset \in DistinctSeqs(SeedNodes, MaxSetLen),
              c \in {None, Some(CallerContext)}}

ConvInit ==
    /\ readers \in {<<Held(r, 0, r.context.mode = "Borrowed")>> : r \in SeedReaders}
    /\ exprs = <<>>
    /\ last = Idle

ConvNext ==
    \/ FromXml
    \/ ImplementerFromXml
    \/ OptionImplementerFromXml
    \/ AnchorNode
    \/ AnchorNodesetOf
    \/ Read(Types)
    \/ Resume

ConvSpec == ConvInit /\ [][ConvNext]_vars

(***************************************************************************)
(* ExprSpec: expressions compiled in advance or passed as text, evaluated  *)
(* on one Reader: over the document root, over one element, over an empty  *)
(* node-set.                                                               *)
(***************************************************************************)
ExprReaders ==
    {from_str(DocText, Some(CallerContext), <<"reader", 1>>).val,
     from_str(DocText, None, <<"reader", 1>>).val,
     from_node("book", None, <<"reader", 1>>),
     from_nodeset(Nodeset_new, Some(CallerContext), <<"reader", 1>>)}

ExprInit ==
    /\ readers \in {<<Held(r, 0, r.context.mode = "Borrowed")>> : r \in ExprReaders}
    /\ exprs = <<>>
    /\ last = Idle

ExprNext ==
    \/ Parse
    \/ KeepExpression
    \/ WithNodesetEval
    \/ Read(ReadTypes)
    \/ Resume

ExprSpec == ExprInit /\ [][ExprNext]_vars

(***************************************************************************)
(* The claims.  What a claim expects is stated from the document: the      *)
(* nodes of a Reader's anchor, the first and the k-th of a set of nodes in *)
(* document order.                                                         *)
(***************************************************************************)
AnchorNodes(r) ==
    IF r.anchor.tag = "Root" THEN {RootNode} ELSE Range(r.anchor.nodeset)

Before(S, n) == {m \in S : DocPos(m) < DocPos(n)}

FirstInDoc(S) == CHOOSE n \in S : Before(S, n) = {}

NthInDoc(S, k) == CHOOSE n \in S : Cardinality(Before(S, n)) = k - 1

\* the Reader the last call was made on
Callee == readers[last.parent].r

\* C1: String::from_xml returns the string-value of the document-order-first
\* node of the anchor when the anchor has a node (the empty string when that
\* node has no text) and an error when the anchor is an empty node-set; a
\* read::<String> whose expression selects no node fails.
C1_StringFromXml ==
    /\ (last.op = "from_xml" /\ last.V = <<"String">>) =>
         IF AnchorNodes(Callee) = {} THEN ~last.out.res.ok
         ELSE last.out.res = Ok(string_value(FirstInDoc(AnchorNodes(Callee))))
    /\ (last.op = "read" /\ last.V = <<"String">> /\ last.out.trace # <<>>) =>
         IF AnchorNodes(last.out.trace[1].reader) = {} THEN ~last.out.res.ok
         ELSE last.out.res =
                  Ok(string_value(FirstInDoc(AnchorNodes(last.out.trace[1].reader))))

\* String::from_xml on an anchor whose nodes were inserted against document
\* order has returned the text of the first in document order
C1_Witness ==
    /\ last.op = "from_xml" /\ last.V = <<"String">>
    /\ Callee.anchor = AnchorNodeset(<<"item3", "item1">>)
    /\ last.out.res = Ok(<<"7">>)

\* C2: Option::<String>::from_xml never fails; it returns None exactly when
\* the anchor is an empty node-set or the string-value of its first node is
\* empty, and Some of that string-value otherwise.
C2_OptionStringFromXml ==
    (last.op = "from_xml" /\ last.V = <<"Option", "String">>) =>
        /\ last.out.res.ok
        /\ last.out.res.val = None <=>
               \/ AnchorNodes(Callee) = {}
               \/ string_value(FirstInDoc(AnchorNodes(Callee))) = <<>>
        /\ last.out.res.val # None =>
               last.out.res.val = Some(string_value(FirstInDoc(AnchorNodes(Callee))))

\* Option::<String>::from_xml on an element without text has returned None
C2_Witness ==
    /\ last.op = "from_xml" /\ last.V = <<"Option", "String">>
    /\ Callee.anchor = AnchorNodeset(<<"item1", "empty">>)
    /\ last.out.res = Ok(None)

\* the conversion of the single node n to T by the Reader Vec<T> builds for it
ElementResult(T, r, n) ==
    from_xml(T, from_node(n, Some(context(r)), <<"element", DocPos(n)>>)).res

\* C3: when every element converts, Vec::<T>::from_xml returns one entry per
\* node of the anchor, in document order whatever the insertion order; an
\* anchor without nodes gives the empty sequence.
C3_VecDocumentOrder ==
    (/\ last.op = "from_xml" /\ last.V[1] = "Vec"
     /\ \A n \in AnchorNodes(Callee) : ElementResult(Tail(last.V), Callee, n).ok) =>
        /\ last.out.res.ok
        /\ Len(last.out.res.val) = Cardinality(AnchorNodes(Callee))
        /\ \A k \in 1..Len(last.out.res.val) :
               Ok(last.out.res.val[k]) =
               ElementResult(Tail(last.V), Callee, NthInDoc(AnchorNodes(Callee), k))

\* Vec::<String>::from_xml on nodes inserted against document order has
\* returned their texts in document order
C3_Witness ==
    /\ last.op = "from_xml" /\ last.V = <<"Vec", "String">>
    /\ Callee.anchor = AnchorNodeset(<<"item3", "item1">>)
    /\ last.out.res = Ok(<< <<"7">>, <<"3", "0", "0">> >>)

\* the nodes of the anchor whose conversion to T fails
Failing(T, r) == {n \in AnchorNodes(r) : ~ElementResult(T, r, n).ok}

\* the anchor nodes of the Readers the elements were converted from, in order
ConvertedNodes(trace) ==
    [k \in 1..Len(trace) |-> FirstInDoc(AnchorNodes(trace[k].reader))]

\* C4: when an element fails to convert, Vec::<T>::from_xml returns an error
\* and no sequence: the error of the first failing node in document order;
\* the nodes up to that one are converted, in document order, and none after.
C4_VecFailFast ==
    (/\ last.op = "from_xml" /\ last.V[1] = "Vec"
     /\ Failing(Tail(last.V), Callee) # {}) =>
        LET f == FirstInDoc(Failing(Tail(last.V), Callee))
        IN /\ last.out.res = ElementResult(Tail(last.V), Callee, f)
           /\ Len(last.out.trace) = Cardinality(Before(AnchorNodes(Callee), f)) + 1
           /\ \A k \in 1..Len(last.out.trace) :
                  ConvertedNodes(last.out.trace)[k] = NthInDoc(AnchorNodes(Callee), k)

\* Vec::<u8>::from_xml over 300 and x, inserted with 300 first, has failed on
\* x, the first in document order, without converting 300
C4_Witness ==
    /\ last.op = "from_xml" /\ last.V = <<"Vec", "u8">>
    /\ Callee.anchor = AnchorNodeset(<<"item3", "item2">>)
    /\ ~last.out.res.ok
    /\ last.out.res.err.msg = ParseIntError("InvalidDigit")
    /\ ConvertedNodes(last.out.trace) = <<"item2">>

\* whether the error carries the text s: s appears in its message
Carries(err, s) ==
    \E k \in 0..Len(err.msg) :
        /\ k + Len(s) <= Len(err.msg)
        /\ \A j \in 1..Len(s) : err.msg[k + j] = s[j]

\* the last call converted a Reader whose first node has a text that does
\* not parse as the numeric or boolean type N
ParseFails(N) ==
    /\ last.op = "from_xml" /\ last.V = <<N>>
    /\ AnchorNodes(Callee) # {}
    /\ ~str_parse(N, string_value(FirstInDoc(AnchorNodes(Callee)))).ok

\* C7: for a numeric or boolean type, a first node whose text does not parse
\* makes from_xml fail with an error of the ConversionValue kind that carries
\* the offending text.
C7_ParseErrorKind ==
    \A N \in NumTypes :
        ParseFails(N) =>
            /\ ~last.out.res.ok
            /\ last.out.res.err.kind = "ConversionValue"
            /\ Carries(last.out.res.err,
                       string_value(FirstInDoc(AnchorNodes(Callee))))

\* C8: Option::<N>::from_xml returns None exactly when Option::<String> does
\* (no anchor node, or an empty string-value); otherwise Some of the parsed
\* value when the text parses, and the parse error when it does not.
C8_OptionNumFromXml ==
    \A N \in NumTypes :
        (last.op = "from_xml" /\ last.V = <<"Option", N>>) =>
            IF \/ AnchorNodes(Callee) = {}
               \/ string_value(FirstInDoc(AnchorNodes(Callee))) = <<>>
            THEN last.out.res = Ok(None)
            ELSE LET v == str_parse(N, string_value(FirstInDoc(AnchorNodes(Callee))))
                 IN IF v.ok THEN last.out.res = Ok(Some(v.val))
                    ELSE /\ ~last.out.res.ok
                         /\ last.out.res.err.msg = v.err

\* Option::<i8>::from_xml on a text out of the range of i8 has failed with
\* the overflow of the parse
C8_Witness ==
    /\ last.op = "from_xml" /\ last.V = <<"Option", "i8">>
    /\ Callee.anchor = AnchorNodeset(<<"item3">>)
    /\ ~last.out.res.ok
    /\ last.out.res.err.msg = ParseIntError("PosOverflow")

\* the result of the last call
LastRes == IF last.op \in {"read", "from_xml"} THEN last.out.res ELSE last.res

EmptyAnchor(r) == r.anchor = AnchorNodeset(<<>>)

NoAnchorError(err) ==
    /\ err.kind = "EvalXPath"
    /\ err.msg[1] = "Anchor node not found when evaluating: "

\* the text is a well-formed, non-empty expression
Compiles(text) == Factory_build(text).ok /\ Factory_build(text).val.some

\* C5 as claimed: on a Reader whose anchor is an empty node-set,
\* with_nodeset_eval and read fail with the no-anchor EvalXPath error, for
\* every expression.
C5_NoAnchorEveryExpression ==
    (last.op \in {"with_nodeset_eval", "read"} /\ EmptyAnchor(Callee)) =>
        ~LastRes.ok /\ NoAnchorError(LastRes.err)

\* C5 amended: on a Reader whose anchor is an empty node-set,
\* with_nodeset_eval and read always fail, no Reader is derived and nothing
\* is converted: with the no-anchor EvalXPath error for every expression
\* that compiles, with the ParseXPath error of the compile for a text that
\* is malformed or empty.
C5_NoAnchor ==
    (last.op \in {"with_nodeset_eval", "read"} /\ EmptyAnchor(Callee)) =>
        /\ ~LastRes.ok
        /\ IF Compiles(last.text) THEN NoAnchorError(LastRes.err)
           ELSE LastRes.err.kind = "ParseXPath"
        /\ last.op = "read" => last.out.trace = <<>>

\* a read with an expression compiled in advance, on a Reader over the empty
\* node-set, has failed with the no-anchor error
C5_Witness ==
    /\ last.op = "read" /\ EmptyAnchor(Callee)
    /\ last.x.repr = "Parsed" /\ last.text = "//item"
    /\ ~last.out.res.ok /\ NoAnchorError(last.out.res.err)

\* what the expression of the last call evaluates to on the Reader called
Evaluated == evaluate(Callee, last.x, last.io)

\* C6: with_nodeset_eval returns a Reader exactly when the evaluation gives a
\* node-set, and its anchor is that node-set; a string, number or boolean
\* makes it fail with an EvalXPath error, and read then converts nothing.
C6_NodesetOrError ==
    /\ last.op = "with_nodeset_eval" =>
         /\ last.res.ok <=> (Evaluated.ok /\ Evaluated.val.tag = "Nodeset")
         /\ last.res.ok => last.res.val.anchor = AnchorNodeset(Evaluated.val.nodeset)
    /\ (/\ last.op \in {"with_nodeset_eval", "read"}
        /\ Evaluated.ok /\ Evaluated.val.tag \in {"String", "Number", "Boolean"}) =>
         /\ ~LastRes.ok
         /\ LastRes.err.kind = "EvalXPath"
         /\ last.op = "read" => last.out.trace = <<>>

\* a read of count(//item), a number, has failed with an EvalXPath error
\* without converting
C6_Witness ==
    /\ last.op = "read" /\ last.text = "count(//item)"
    /\ Evaluated = Ok([tag |-> "Number", n |-> 3])
    /\ ~last.out.res.ok /\ last.out.res.err.kind = "EvalXPath"
    /\ last.out.trace = <<>>

\* the same value, or an error of the same kind from the same stage
SameOutcome(a, b) ==
    /\ a.ok = b.ok
    /\ a.ok => a.val = b.val
    /\ ~a.ok => (a.err.kind = b.err.kind /\ a.err.msg[1] = b.err.msg[1])

\* C10: a read or a derivation with an expression compiled in advance from a
\* text gives the outcome of the same call with the text; parse fails on the
\* texts on which a read with the text fails to compile, with that error;
\* parsed() of a compiled expression is a borrow of the query it holds, and
\* parsed() of the text is an owned query equal to it.
C10_ParsedEquivalence ==
    /\ (last.op = "read" /\ last.x.repr = "Parsed") =>
         SameOutcome(last.out.res,
                     read(Callee, from_text(last.text), last.V, last.io).res)
    /\ (last.op = "with_nodeset_eval" /\ last.x.repr = "Parsed") =>
         SameOutcome(last.res,
                     with_nodeset_eval(Callee, from_text(last.text), last.io))
    /\ last.op = "parse" =>
         \A i \in 1..Len(readers), V \in ReadTypes, io \in InsertionOrders :
             IF last.res.ok
             THEN \/ read(readers[i].r, from_text(last.text), V, io).res.ok
                  \/ read(readers[i].r, from_text(last.text), V, io).res.err.kind
                         # "ParseXPath"
             ELSE read(readers[i].r, from_text(last.text), V, io).res = last.res
    /\ \A k \in 1..Len(exprs) :
         /\ parsed(from_expression_ref(exprs[k].x)) = Ok(Borrowed(borrow(exprs[k].x.cell)))
         /\ parsed(from_text(exprs[k].text)) = Ok(Owned(borrow(exprs[k].x.cell)))

\* a read of //item as Vec<u8>, compiled in advance, on a Reader over the
\* document has failed on the element x as the read of the text does
C10_Witness ==
    /\ last.op = "read" /\ last.x.repr = "Parsed" /\ last.text = "//item"
    /\ last.V = <<"Vec", "u8">> /\ last.io = "reverse"
    /\ Callee.anchor = AnchorRoot
    /\ ~last.out.res.ok /\ last.out.res.err.msg = ParseIntError("InvalidDigit")

RECURSIVE RootOf(_)
\* the Reader at the root of the derivation tree of the i-th Reader held
RootOf(i) == IF readers[i].parent = 0 THEN i ELSE RootOf(readers[i].parent)

\* the Context instance of the derivation tree of the i-th Reader held
TreeContext(i) == context(readers[RootOf(i)].r).id

SharesTreeContext(r, i) ==
    r.context.mode = "Borrowed" /\ r.context.v.id = TreeContext(i)

\* C9: a Reader derived from a parent borrows the Context instance of the
\* root of its derivation tree, also the Reader just derived, the Reader a
\* read converts from and the Readers built for the elements of a Vec; a
\* Reader owns its Context exactly when it is a root built without a
\* supplied Context, so a derivation tree has at most one owner.
C9_ContextShared ==
    /\ \A i \in 1..Len(readers) :
         /\ readers[i].parent # 0 => SharesTreeContext(readers[i].r, i)
         /\ readers[i].r.context.mode = "Owned" <=>
                (readers[i].parent = 0 /\ ~readers[i].supplied)
    /\ \A i, j \in 1..Len(readers) :
         (/\ RootOf(i) = RootOf(j)
          /\ readers[i].r.context.mode = "Owned"
          /\ readers[j].r.context.mode = "Owned") => i = j
    /\ (last.op = "with_nodeset_eval" /\ last.res.ok) =>
         SharesTreeContext(last.res.val, last.parent)
    /\ last.op = "read" =>
         \A k \in 1..Len(last.out.trace) :
             SharesTreeContext(last.out.trace[k].reader, last.parent)

\* a Vec has been read through a Reader derived from a root that owns its
\* Context: the derived Reader, the Reader read from and the element Readers
\* borrow the root's Context
C9_Witness ==
    /\ Len(readers) = 2 /\ readers[2].parent = 1
    /\ readers[1].r.context.mode = "Owned"
    /\ last.op = "read" /\ last.parent = 2 /\ last.V = <<"Vec", "u8">>
    /\ Len(last.out.trace) = 2
    /\ last.out.trace[2].reader.context = Borrowed(context(readers[1].r))

\* the error FromXml for an implementer makes of a missing value
MissingValueError(err) ==
    /\ err.kind = "Custom"
    /\ err.msg[1] = "Missing value for type "

\* C11: for an implementer T of FromXmlOptional, Option::<T>::from_xml returns
\* what T::from_xml_optional returns; T::from_xml returns Ok(v) when that is
\* Ok(Some(v)), the Custom missing-value error when it is Ok(None), and the
\* error itself when it is an error: T::from_xml fails with an error that
\* from_xml_optional did not return exactly when from_xml_optional returned
\* Ok(None).
C11_FromXmlOptional ==
    /\ last.op = "option_implementer_from_xml" => last.res = last.opt
    /\ last.op = "implementer_from_xml" =>
         /\ IF ~last.opt.ok THEN last.res = last.opt
            ELSE IF last.opt.val.some THEN last.res = Ok(last.opt.val.v)
            ELSE ~last.res.ok /\ MissingValueError(last.res.err)
         /\ (~last.res.ok /\ last.res # last.opt) <=> last.opt = Ok(None)

\* Title::from_xml on an element without text, where from_xml_optional
\* returns Ok(None), has failed with the missing-value error
C11_Witness ==
    /\ last.op = "implementer_from_xml" /\ last.T = "Title"
    /\ Callee.anchor = AnchorNodeset(<<"empty">>)
    /\ last.opt = Ok(None)
    /\ ~last.res.ok /\ MissingValueError(last.res.err)

\* the first in document order of the nodes of a node-set, None without nodes
FirstOf(nodeset) ==
    IF Range(nodeset) = {} THEN None ELSE Some(FirstInDoc(Range(nodeset)))

\* C12: for every Reader, anchor_node() is the first node in document order
\* of anchor_nodeset(), and None only when the anchor is an empty node-set;
\* a Reader over the document root gives the root node, never None, and its
\* anchor_nodeset() is the node-set of the root node alone.  This holds of
\* the Readers held and of the Readers a read derives and converts from.
C12_AnchorNodeFirst ==
    /\ last.op = "anchor_node" =>
         /\ last.res = FirstOf(anchor_nodeset(Callee))
         /\ last.res = None <=> Callee.anchor = AnchorNodeset(<<>>)
         /\ Callee.anchor = AnchorRoot => last.res = Some(RootNode)
    /\ last.op = "anchor_nodeset" =>
         /\ FirstOf(last.res) = anchor_node(Callee)
         /\ Callee.anchor = AnchorRoot => last.res = <<RootNode>>
         /\ Callee.anchor # AnchorRoot => last.res = Callee.anchor.nodeset
    /\ last.op = "read" =>
         \A k \in 1..Len(last.out.trace) :
             anchor_node(last.out.trace[k].reader) =
                 FirstOf(anchor_nodeset(last.out.trace[k].reader))

\* anchor_node() on a node-set whose nodes were inserted against document
\* order has returned the first in document order
C12_Witness ==
    /\ last.op = "anchor_node"
    /\ Callee.anchor = AnchorNodeset(<<"item3", "n">>)
    /\ last.res = Some("n")

\* what the engine gives for the query of the last call, run on the first
\* anchor node of the Reader called with the Reader's Context
EngineValue ==
    XPath_evaluate(Factory_build(last.text).val.v, context(Callee),
                   FirstInDoc(AnchorNodes(Callee)), last.io)

\* the first stage of the last read or derivation that does not succeed, in
\* the order compile, anchor, evaluate, shape; convert when all of them do
Stage ==
    IF last.x.repr = "Unparsed" /\ ~Compiles(last.text) THEN "compile"
    ELSE IF AnchorNodes(Callee) = {} THEN "anchor"
    ELSE IF ~EngineValue.ok THEN "evaluate"
    ELSE IF EngineValue.val.tag # "Nodeset" THEN "shape"
    ELSE "convert"

\* err is the error of the stage
StageError(stage, err) ==
    CASE stage = "compile" -> err.kind = "ParseXPath"
      [] stage = "anchor" -> NoAnchorError(err)
      [] stage = "evaluate" -> err.kind = "EvalXPath" /\ err.msg = EngineValue.err
      [] stage = "shape" ->
           /\ err.kind = "EvalXPath"
           /\ err.msg[1] = "XPath expression did not evaluate to nodeset: '"

\* C13: read and with_nodeset_eval run their stages in the order compile,
\* anchor check, evaluation, node-set shape check, and the first stage that
\* fails decides the error: a malformed or empty expression fails with the
\* ParseXPath error also on a Reader with an empty anchor, the no-anchor
\* error comes before any evaluation error, an evaluation error before the
\* not-a-node-set error; the conversion runs only when all of them succeed,
\* on the Reader over the node-set evaluated, and its result is returned.
C13_StageOrder ==
    last.op \in {"read", "with_nodeset_eval"} =>
        IF Stage = "convert"
        THEN /\ last.op = "with_nodeset_eval" => last.res.ok
             /\ last.op = "read" =>
                  /\ last.out.trace # <<>>
                  /\ last.out.trace[1].ty = last.V
                  /\ last.out.trace[1].reader.anchor =
                         AnchorNodeset(EngineValue.val.nodeset)
                  /\ last.out.res = from_xml(last.V, last.out.trace[1].reader).res
        ELSE /\ ~LastRes.ok
             /\ StageError(Stage, LastRes.err)
             /\ last.op = "read" => last.out.trace = <<>>

\* a read of a malformed expression on a Reader over the empty node-set has
\* failed with the ParseXPath error of the compile, without converting
C13_Witness ==
    /\ last.op = "read" /\ last.text = "//["
    /\ EmptyAnchor(Callee)
    /\ ~last.out.res.ok /\ last.out.res.err.kind = "ParseXPath"
    /\ last.out.trace = <<>>

====
